---- MODULE Spec2Model ----
(***************************************************************************)
(* Model of the two services of the repository:                            *)
(*   - the user service (apps/user-service/src/index.js): an HTTP surface   *)
(*     over one Redis key 'users' holding the whole collection as JSON;     *)
(*   - the API gateway (the instrumented gateway index.js), which forwards  *)
(*     /api/users requests to the user service with axios.                  *)
(* Every await of the handlers is a suspension point, so every handler is   *)
(* split into one action per continuation.                                  *)
(***************************************************************************)
EXTENDS Integers, Sequences, FiniteSets, TLC

\* ---------------------------------------------------------------- bounds
MaxReqs == 2        \* client requests issued in one behaviour
MaxInFlight == 2    \* connections handled concurrently by one service
MaxGwReqs == 1      \* client requests issued to the gateway in one behaviour

Slots == 1..MaxInFlight

\* ---------------------------------------------------------------- values
Undefined == "undefined"
NoBody == [empty |-> TRUE]
NoRes == [status |-> 0, body |-> NoBody]
NoKey == [absent |-> TRUE]
NoUp == [kind |-> "none"]

\* JavaScript truthiness of the values a request field takes here.
Falsy(v) == v \in {Undefined, ""}

\* Request bodies a client posts: a valid new user, the same with a role,
\* the email of a seeded user, an empty name, a missing email.
Bodies ==
  { [name |-> "Ann", email |-> "ann@x.io", role |-> Undefined],
    [name |-> "Ann", email |-> "ann@x.io", role |-> "admin"],
    [name |-> "Joe", email |-> "john@example.com", role |-> Undefined],
    [name |-> "", email |-> "ann@x.io", role |-> Undefined],
    [name |-> "Ann", email |-> Undefined, role |-> Undefined] }

VARIABLES
  store,      \* the value of the Redis key 'users': NoKey or a JSON text
  redisUp,    \* whether Redis answers commands
  nextId,     \* the uuidv4 generator: the next identifier it hands out
  clock,      \* Date.now(), advanced by every arriving client request
  boot,       \* position of the user service's start(): initializeData, listen
  ds,         \* user service: the request handled on each connection
  gw,         \* gateway: the request handled on each connection
  client,     \* a sequential client running the create/get/delete/get scenario
  life,       \* each process's shutdown: signals, listener, force-exit timer, exit
  prev,       \* what the user service's previous run left when it was restarted
  gone        \* the ids a client was told are deleted: DELETE answered 204

vars == <<store, redisUp, nextId, clock, boot, ds, gw, client, life, prev, gone>>

\* ---------------------------------------------------------------- JSON
\* JSON.stringify / JSON.parse of the collection: the text wraps the array.
JSONstringify(users) == [json |-> users]
JSONparse(text) == text.json

\* `data ? JSON.parse(data) : []` on the reply of redis.get
ParseUsers(data) == IF data = NoKey THEN <<>> ELSE JSONparse(data)

\* users.findIndex(pred), given the indices pred holds at: the first of
\* them, 0 for JavaScript's -1
FirstIndex(matching) ==
  IF matching = {} THEN 0
  ELSE CHOOSE i \in matching : \A j \in matching : i <= j

FindIndexById(users, id) == FirstIndex({i \in 1..Len(users) : users[i].id = id})

\* a duplicate check that looks at the first user only
FindIndexByEmailFirstOnly(users, email) ==
  IF Len(users) > 0 /\ users[1].email = email THEN 1 ELSE 0

FindIndexByEmail(users, email) ==
  FirstIndex({i \in 1..Len(users) : users[i].email = email})

\* a removal that drops the last user whatever the index
SplicePop(users, index) == SubSeq(users, 1, Len(users) - 1)

\* users.splice(index, 1)
Splice(users, index) ==
  [i \in 1..(Len(users) - 1) |-> IF i < index THEN users[i] ELSE users[i + 1]]

\* the sample users initializeData writes
SampleUsers(id, at) ==
  << [id |-> id, name |-> "John Doe", email |-> "john@example.com",
      role |-> "admin", createdAt |-> at],
     [id |-> id + 1, name |-> "Jane Smith", email |-> "jane@example.com",
      role |-> "user", createdAt |-> at],
     [id |-> id + 2, name |-> "Bob Wilson", email |-> "bob@example.com",
      role |-> "user", createdAt |-> at] >>

\* a generator that hands out the same identifier again
NewUserReusedId(id, body, at) ==
  [id |-> 1, name |-> body.name, email |-> body.email,
   role |-> IF Falsy(body.role) THEN "user" ELSE body.role, createdAt |-> at]

\* the newUser object of POST /users
NewUser(id, body, at) ==
  [id |-> id, name |-> body.name, email |-> body.email,
   role |-> IF Falsy(body.role) THEN "user" ELSE body.role, createdAt |-> at]

\* ---------------------------------------------------------------- state
\* a handler of the user service; aborted: the client ended the connection
\* while the handler was running
IdleH ==
  [pc |-> "idle", method |-> "none", id |-> 0, body |-> NoBody,
   users |-> <<>>, user |-> NoBody, res |-> NoRes, aborted |-> FALSE]

IdleG ==
  [pc |-> "idle", route |-> "none", id |-> 0, body |-> NoBody,
   up |-> NoUp, res |-> NoRes]

IdleClient == [pc |-> "free", via |-> "none", body |-> NoBody, got |-> <<>>]

\* the two processes: the user service and the gateway
Procs == {"ds", "gw"}

\* A process nobody signalled: no force-exit timer (0 ms), the listener's
\* handle not closed, no close listener registered, no redis.quit() awaited.
\*   waiters: the err each registered 'close' listener will hand its callback
\*   quits:   the err of each callback awaiting redis.quit(), in issue order
\*   busy:    requests in flight when the first signal arrived
\*   cut:     requests still in flight when the process exited
IdleProc ==
  [signals |-> 0, timer |-> 0, closed |-> FALSE, waiters |-> <<>>, quits |-> <<>>,
   exited |-> FALSE, status |-> 0, how |-> "none", busy |-> 0, cut |-> 0,
   quitFailed |-> FALSE]

NoPrev == [starts |-> 1, store |-> NoKey, clock |-> 0]

\* a start() that listens before initializeData has finished
DsListeningEarly == boot \in {"connect", "exists", "set", "serving"}

\* start(): `await initializeData()` and only then `server = app.listen(...)`;
\* server.close() stops the listening
DsListening == boot = "serving"

\* the gateway listens from module load until server.close() or the exit
GwListening == ~life["gw"].closed /\ ~life["gw"].exited

Init ==
  /\ store = NoKey
  /\ redisUp = TRUE
  /\ nextId = 1
  /\ clock = 0
  /\ boot = "connect"
  /\ ds = [s \in Slots |-> IdleH]
  /\ gw = [s \in Slots |-> IdleG]
  /\ client = IdleClient
  /\ life = [p \in Procs |-> IdleProc]
  /\ prev = NoPrev
  /\ gone = {}

\* ---------------------------------------------------------------- Redis
RedisFails ==
  /\ redisUp
  /\ redisUp' = FALSE
  /\ UNCHANGED <<store, nextId, clock, boot, ds, gw, client, life, prev, gone>>

RedisRecovers ==
  /\ ~redisUp
  /\ redisUp' = TRUE
  /\ UNCHANGED <<store, nextId, clock, boot, ds, gw, client, life, prev, gone>>

\* ------------------------------------------- user service: initializeData
\* await redis.connect(): a rejection is caught, the service listens anyway
InitConnect ==
  /\ boot = "connect"
  /\ boot' = IF redisUp THEN "exists" ELSE "serving"
  /\ UNCHANGED <<store, redisUp, nextId, clock, ds, gw, client, life, prev, gone>>

\* a seeding that does not look whether the key exists
InitExistsAlwaysSeeds ==
  /\ boot = "exists"
  /\ boot' = IF redisUp THEN "set" ELSE "serving"
  /\ UNCHANGED <<store, redisUp, nextId, clock, ds, gw, client, life, prev, gone>>

\* a seeding that takes a collection without users for a missing one
InitExistsSeedsWhenEmpty ==
  /\ boot = "exists"
  /\ boot' = IF redisUp /\ ParseUsers(store) = <<>> THEN "set" ELSE "serving"
  /\ UNCHANGED <<store, redisUp, nextId, clock, ds, gw, client, life, prev, gone>>

\* await redis.exists(USERS_KEY)
InitExists ==
  /\ boot = "exists"
  /\ boot' = IF redisUp /\ store = NoKey THEN "set" ELSE "serving"
  /\ UNCHANGED <<store, redisUp, nextId, clock, ds, gw, client, life, prev, gone>>

\* await redis.set(USERS_KEY, JSON.stringify(sampleUsers)); then app.listen
InitSet ==
  /\ boot = "set"
  /\ boot' = "serving"
  /\ nextId' = nextId + 3
  /\ store' = IF redisUp THEN JSONstringify(SampleUsers(nextId, clock)) ELSE store
  /\ UNCHANGED <<redisUp, clock, ds, gw, client, life, prev, gone>>


\* ------------------------------------------- user service: HTTP handlers
Reply(h, status, body) ==
  [h EXCEPT !.pc = "done", !.users = <<>>, !.res = [status |-> status, body |-> body]]

ErrorBody(text) == [error |-> text]

\* the body of the 500 each route's catch block sends
DsFailureBody(method) ==
  CASE method = "list" -> ErrorBody("Failed to retrieve users")
    [] method = "get" -> ErrorBody("Failed to retrieve user")
    [] method = "create" -> ErrorBody("Failed to create user")
    [] method = "delete" -> ErrorBody("Failed to delete user")

\* a POST /users that finds the store unreachable before it validates
DsStartStoreFirst(method, id, body) ==
  LET h == [IdleH EXCEPT !.method = method, !.id = id, !.body = body] IN
  CASE method = "health" -> Reply(h, 200, [status |-> "healthy"])
    [] method = "live" -> Reply(h, 200, [status |-> "alive"])
    [] method = "ready" -> [h EXCEPT !.pc = "ping"]
    [] method = "unknown" -> Reply(h, 404, ErrorBody("Not found"))
    [] method = "create" /\ ~redisUp ->
         Reply(h, 500, ErrorBody("Failed to create user"))
    [] method = "create" /\ (Falsy(body.name) \/ Falsy(body.email)) ->
         Reply(h, 400, ErrorBody("Name and email are required"))
    [] OTHER -> [h EXCEPT !.pc = "get"]

\* a POST /users that does not validate its body
DsStartNoValidation(method, id, body) ==
  LET h == [IdleH EXCEPT !.method = method, !.id = id, !.body = body] IN
  CASE method = "health" -> Reply(h, 200, [status |-> "healthy"])
    [] method = "live" -> Reply(h, 200, [status |-> "alive"])
    [] method = "ready" -> [h EXCEPT !.pc = "ping"]
    [] method = "unknown" -> Reply(h, 404, ErrorBody("Not found"))
    [] OTHER -> [h EXCEPT !.pc = "get"]

\* an unmatched request that ends in the error middleware
DsStartUnknownIs500(method, id, body) ==
  LET h == [IdleH EXCEPT !.method = method, !.id = id, !.body = body] IN
  CASE method = "health" -> Reply(h, 200, [status |-> "healthy"])
    [] method = "live" -> Reply(h, 200, [status |-> "alive"])
    [] method = "ready" -> [h EXCEPT !.pc = "ping"]
    [] method = "unknown" -> Reply(h, 500, ErrorBody("Internal server error"))
    [] method = "create" /\ (Falsy(body.name) \/ Falsy(body.email)) ->
         Reply(h, 400, ErrorBody("Name and email are required"))
    [] OTHER -> [h EXCEPT !.pc = "get"]

\* a /health that asks the store before it answers, as /health/ready does
DsStartHealthPings(method, id, body) ==
  LET h == [IdleH EXCEPT !.method = method, !.id = id, !.body = body] IN
  CASE method = "live" -> Reply(h, 200, [status |-> "alive"])
    [] method \in {"health", "ready"} -> [h EXCEPT !.pc = "ping"]
    [] method = "unknown" -> Reply(h, 404, ErrorBody("Not found"))
    [] method = "create" /\ (Falsy(body.name) \/ Falsy(body.email)) ->
         Reply(h, 400, ErrorBody("Name and email are required"))
    [] OTHER -> [h EXCEPT !.pc = "get"]

\* a liveness route that asks the store before it answers
DsStartLivePings(method, id, body) ==
  LET h == [IdleH EXCEPT !.method = method, !.id = id, !.body = body] IN
  CASE method = "health" -> Reply(h, 200, [status |-> "healthy"])
    [] method \in {"live", "ready"} -> [h EXCEPT !.pc = "ping"]
    [] method = "unknown" -> Reply(h, 404, ErrorBody("Not found"))
    [] method = "create" /\ (Falsy(body.name) \/ Falsy(body.email)) ->
         Reply(h, 400, ErrorBody("Name and email are required"))
    [] OTHER -> [h EXCEPT !.pc = "get"]

\* The synchronous part of a handler, up to its first await.
\*   GET /health and GET /health/live answer at once; GET /health/ready
\*   issues redis.ping(); a request no route matches reaches the 404
\*   handler; POST /users validates name and email;
\*   the four /users routes then issue redis.get(USERS_KEY).
DsStart(method, id, body) ==
  LET h == [IdleH EXCEPT !.method = method, !.id = id, !.body = body] IN
  CASE method = "health" -> Reply(h, 200, [status |-> "healthy"])
    [] method = "live" -> Reply(h, 200, [status |-> "alive"])
    [] method = "ready" -> [h EXCEPT !.pc = "ping"]
    [] method = "unknown" -> Reply(h, 404, ErrorBody("Not found"))
    [] method = "create" /\ (Falsy(body.name) \/ Falsy(body.email)) ->
         Reply(h, 400, ErrorBody("Name and email are required"))
    [] OTHER -> [h EXCEPT !.pc = "get"]

\* a readiness that reports the store up whatever the ping did
DsOnPingAlwaysUp(h, ok) == Reply(h, 200, [status |-> "ready", redis |-> "up"])

\* GET /health/ready after `await redis.ping()`: resolved, or rejected (catch)
DsOnPing(h, ok) ==
  IF ok THEN Reply(h, 200, [status |-> "ready", redis |-> "up"])
  ELSE Reply(h, 503, [status |-> "not ready", redis |-> "down"])

\* a listing that writes the collection it read back to Redis
GetUsersOnGetWritesBack(h, data) ==
  [h EXCEPT !.pc = "set", !.users = ParseUsers(data)]

\* a listing that treats an empty collection as missing
GetUsersOnGetEmptyIs404(h, data) ==
  LET users == ParseUsers(data) IN
  IF Len(users) = 0 THEN Reply(h, 404, ErrorBody("No users"))
  ELSE Reply(h, 200, [data |-> users, total |-> Len(users)])

\* GET /users after redis.get resolved with data
GetUsersOnGet(h, data) ==
  LET users == ParseUsers(data) IN
  Reply(h, 200, [data |-> users, total |-> Len(users)])

\* a lookup that answers with the first user when the id matches none
GetUserOnGetFallsBack(h, data) ==
  LET users == ParseUsers(data)
      i == FindIndexById(users, h.id) IN
  IF i = 0
  THEN IF users = <<>> THEN Reply(h, 404, ErrorBody("User not found"))
       ELSE Reply(h, 200, users[1])
  ELSE Reply(h, 200, users[i])

\* GET /users/:id after redis.get resolved with data
GetUserOnGet(h, data) ==
  LET users == ParseUsers(data)
      i == FindIndexById(users, h.id) IN
  IF i = 0 THEN Reply(h, 404, ErrorBody("User not found"))
  ELSE Reply(h, 200, users[i])

\* POST /users without the duplicate check
PostUsersOnGetNoCheck(h, data, id, at) ==
  LET users == ParseUsers(data)
      newUser == NewUser(id, h.body, at) IN
  [h EXCEPT !.pc = "set", !.user = newUser, !.users = Append(users, newUser)]

\* POST /users after redis.get resolved with data: duplicate check, then
\* newUser is pushed and redis.set is issued with the whole collection
PostUsersOnGet(h, data, id, at) ==
  LET users == ParseUsers(data) IN
  IF FindIndexByEmail(users, h.body.email) # 0
  THEN Reply(h, 409, ErrorBody("Email already exists"))
  ELSE LET newUser == NewUser(id, h.body, at) IN
       [h EXCEPT !.pc = "set", !.user = newUser, !.users = Append(users, newUser)]

\* DELETE /users/:id without the index === -1 check: splice(-1, 1) removes
\* the last user
DeleteUserOnGetNoCheck(h, data) ==
  LET users == ParseUsers(data)
      index == FindIndexById(users, h.id) IN
  IF index = 0
  THEN [h EXCEPT !.pc = "set", !.users = SubSeq(users, 1, Len(users) - 1)]
  ELSE [h EXCEPT !.pc = "set", !.users = Splice(users, index)]

\* DELETE /users/:id after redis.get resolved with data
DeleteUserOnGet(h, data) ==
  LET users == ParseUsers(data)
      index == FindIndexById(users, h.id) IN
  IF index = 0 THEN Reply(h, 404, ErrorBody("User not found"))
  ELSE [h EXCEPT !.pc = "set", !.users = Splice(users, index)]

\* the continuation after `await redis.get(USERS_KEY)`
DsOnGet(h, data, id, at) ==
  CASE h.method = "list" -> GetUsersOnGet(h, data)
    [] h.method = "get" -> GetUserOnGet(h, data)
    [] h.method = "create" -> PostUsersOnGet(h, data, id, at)
    [] h.method = "delete" -> DeleteUserOnGet(h, data)

\* a DELETE /users/:id that returns after redis.set without responding
DsOnSetSilent(h) ==
  IF h.method = "create" THEN Reply(h, 201, h.user) ELSE IdleH

\* the continuation after `await redis.set(...)`: 201 with newUser, or 204
DsOnSet(h) ==
  IF h.method = "create" THEN Reply(h, 201, h.user) ELSE Reply(h, 204, NoBody)

\* a write that applies the handler's change to the collection stored now
DsWriteMerged(h, current) ==
  LET users == ParseUsers(current) IN
  IF h.method = "create" THEN JSONstringify(Append(users, h.user))
  ELSE LET i == FindIndexById(users, h.id) IN
       JSONstringify(IF i = 0 THEN users ELSE Splice(users, i))

\* the text redis.set stores for a handler
DsWrite(h, current) == JSONstringify(h.users)

\* the identifiers a client asks for: 0 was never generated, 1 is the first
\* identifier generated, the last is the most recently generated one
ReqIds == {0, 1, nextId - 1}

\* connections are interchangeable: a new one takes the lowest free slot
FreeSlot(s) ==
  /\ ds[s].pc = "idle" /\ gw[s].pc = "idle"
  /\ \A t \in 1..(s - 1) : ds[t].pc # "idle" \/ gw[t].pc # "idle"

\* a client connects to the user service directly
ClientRequestDs(s, method, id, body) ==
  /\ DsListening
  /\ clock < MaxReqs
  /\ client.pc = "free"
  /\ FreeSlot(s)
  /\ clock' = clock + 1
  /\ ds' = [ds EXCEPT ![s] = DsStart(method, id, body)]
  /\ UNCHANGED <<store, redisUp, nextId, boot, gw, client, life, prev, gone>>

\* the same for the scenario client, which records the responses it gets
ScenarioRequestDs(s, method, id, body) ==
  /\ DsListening
  /\ FreeSlot(s)
  /\ ds' = [ds EXCEPT ![s] = DsStart(method, id, body)]
  /\ UNCHANGED <<store, redisUp, nextId, clock, boot, gw, life, prev, gone>>

\* a handler that takes a failed read for an empty collection
DsGetReturnSwallows(s) ==
  /\ ds[s].pc = "get"
  /\ ds' = [ds EXCEPT ![s] =
              DsOnGet(ds[s], IF redisUp THEN store ELSE NoKey, nextId, clock)]
  /\ nextId' = IF ds'[s].pc = "set" /\ ds[s].method = "create"
               THEN nextId + 1 ELSE nextId
  /\ UNCHANGED <<store, redisUp, clock, boot, gw, client, life, prev, gone>>

\* redis.get settles: rejected (catch: 500) or resolved (the route continues)
DsGetReturn(s) ==
  /\ ds[s].pc = "get"
  /\ IF redisUp
     THEN /\ ds' = [ds EXCEPT ![s] = DsOnGet(ds[s], store, nextId, clock)]
          /\ nextId' = IF ds'[s].pc = "set" /\ ds[s].method = "create"
                       THEN nextId + 1 ELSE nextId
     ELSE /\ ds' = [ds EXCEPT ![s] = Reply(ds[s], 500, DsFailureBody(ds[s].method))]
          /\ nextId' = nextId
  /\ UNCHANGED <<store, redisUp, clock, boot, gw, client, life, prev, gone>>

\* redis.set settles: rejected (catch: 500) or the whole collection replaced
DsSetReturn(s) ==
  /\ ds[s].pc = "set"
  /\ IF redisUp
     THEN /\ store' = DsWrite(ds[s], store)
          /\ ds' = [ds EXCEPT ![s] = DsOnSet(ds[s])]
     ELSE /\ store' = store
          /\ ds' = [ds EXCEPT ![s] = Reply(ds[s], 500, DsFailureBody(ds[s].method))]
  /\ UNCHANGED <<redisUp, nextId, clock, boot, gw, client, life, prev, gone>>

\* redis.ping settles
DsPingReturn(s) ==
  /\ ds[s].pc = "ping"
  /\ ds' = [ds EXCEPT ![s] = DsOnPing(ds[s], redisUp)]
  /\ UNCHANGED <<store, redisUp, nextId, clock, boot, gw, client, life, prev, gone>>

\* the response of a directly connected client leaves; the connection ends
DsRespond(s) ==
  /\ ds[s].pc = "done"
  /\ gw[s].pc # "await"
  /\ ds' = [ds EXCEPT ![s] = IdleH]
  /\ client' = IF client.via = "ds" /\ client.pc # "free"
               THEN [client EXCEPT !.got = Append(@, ds[s].res)]
               ELSE client
  /\ UNCHANGED <<store, redisUp, nextId, clock, boot, gw, life, prev, gone>>


\* ------------------------------------------------- gateway: HTTP handlers
Routes == {"list", "get", "create", "delete", "ready"}

\* the user service route an axios call of a gateway route addresses
Upstream(route) == IF route = "ready" THEN "health" ELSE route

\* a readiness probe without a timeout option
AxiosTimeoutNone(route) == 0

\* the timeout option of the axios call of a route, in ms; 0 is axios's
\* default and means the call is never aborted
AxiosTimeout(route) == IF route = "ready" THEN 2000 ELSE 0

\* what an axios call settles with: a response, or an error without one
Response(status, data) == [kind |-> "response", status |-> status, data |-> data]
NetError(code) ==
  [kind |-> "error", code |-> code, message |-> "connect failed: " \o code]

\* axios resolves for a 2xx status (validateStatus) and rejects otherwise
Resolved(up) == up.kind = "response" /\ up.status >= 200 /\ up.status < 300

\* error.response?.status === 404
Is404(up) == up.kind = "response" /\ up.status = 404

GwReply(g, up, status, body) ==
  [g EXCEPT !.pc = "done", !.up = up, !.res = [status |-> status, body |-> body]]

\* GET /health/live: answered by the handler itself, no axios call
GwLive(g) == GwReply(g, NoUp, 200, [status |-> "alive"])

\* a request no route of the gateway matches: the 404 handler
GwNotFound(g) == GwReply(g, NoUp, 404, ErrorBody("Not found"))

\* GET /api/users putting the error's message in the body
GwGetUsersLeaks(g, up) ==
  IF Resolved(up) THEN GwReply(g, up, 200, up.data)
  ELSE GwReply(g, up, 502,
               ErrorBody(IF up.kind = "error" THEN up.message
                         ELSE "Failed to fetch users from user-service"))

\* GET /health/ready
GwReady(g, up) ==
  IF Resolved(up)
  THEN GwReply(g, up, 200, [status |-> "ready", userService |-> "up"])
  ELSE GwReply(g, up, 503, [status |-> "not ready", userService |-> "down"])

\* GET /api/users
GwGetUsers(g, up) ==
  IF Resolved(up) THEN GwReply(g, up, 200, up.data)
  ELSE GwReply(g, up, 502, ErrorBody("Failed to fetch users from user-service"))

\* GET /api/users/:id without the 404 passthrough
GwGetUserNo404(g, up) ==
  IF Resolved(up) THEN GwReply(g, up, 200, up.data)
  ELSE GwReply(g, up, 502, ErrorBody("Failed to fetch user from user-service"))

\* GET /api/users/:id
GwGetUser(g, up) ==
  IF Resolved(up) THEN GwReply(g, up, 200, up.data)
  ELSE IF Is404(up) THEN GwReply(g, up, 404, ErrorBody("User not found"))
  ELSE GwReply(g, up, 502, ErrorBody("Failed to fetch user from user-service"))

\* POST /api/users answering with res.json alone: status 200
GwPostUsersPlainJson(g, up) ==
  IF Resolved(up) THEN GwReply(g, up, 200, up.data)
  ELSE GwReply(g, up, 502, ErrorBody("Failed to create user"))

\* POST /api/users
GwPostUsers(g, up) ==
  IF Resolved(up) THEN GwReply(g, up, 201, up.data)
  ELSE GwReply(g, up, 502, ErrorBody("Failed to create user"))

\* DELETE /api/users/:id putting the error's message in the body
GwDeleteUserLeaks(g, up) ==
  IF Resolved(up) THEN GwReply(g, up, 204, NoBody)
  ELSE IF Is404(up) THEN GwReply(g, up, 404, ErrorBody("User not found"))
  ELSE GwReply(g, up, 502,
               ErrorBody(IF up.kind = "error" THEN up.message ELSE "Failed to delete user"))

\* DELETE /api/users/:id
GwDeleteUser(g, up) ==
  IF Resolved(up) THEN GwReply(g, up, 204, NoBody)
  ELSE IF Is404(up) THEN GwReply(g, up, 404, ErrorBody("User not found"))
  ELSE GwReply(g, up, 502, ErrorBody("Failed to delete user"))

\* the continuation of a gateway handler once its axios call settled
GwOnSettle(g, up) ==
  CASE g.route = "ready" -> GwReady(g, up)
    [] g.route = "list" -> GwGetUsers(g, up)
    [] g.route = "get" -> GwGetUser(g, up)
    [] g.route = "create" -> GwPostUsers(g, up)
    [] g.route = "delete" -> GwDeleteUser(g, up)

\* A client request reaches the gateway, whose handler issues its axios call
\* at once: the user service accepts the connection when it listens and
\* refuses it otherwise.
GwForward(s, route, id, body) ==
  LET g == [IdleG EXCEPT !.route = route, !.id = id, !.body = body] IN
  IF route = "live"
  THEN /\ gw' = [gw EXCEPT ![s] = GwLive(g)]
       /\ ds' = ds
  ELSE IF route = "unknown"
  THEN /\ gw' = [gw EXCEPT ![s] = GwNotFound(g)]
       /\ ds' = ds
  ELSE IF DsListening
  THEN /\ gw' = [gw EXCEPT ![s] = [g EXCEPT !.pc = "await"]]
       /\ ds' = [ds EXCEPT ![s] = DsStart(Upstream(route), id, body)]
  ELSE /\ gw' = [gw EXCEPT ![s] = GwOnSettle(g, NetError("ECONNREFUSED"))]
       /\ ds' = ds

ClientRequestGw(s, route, id, body) ==
  /\ GwListening
  /\ clock < MaxGwReqs
  /\ client.pc = "free"
  /\ FreeSlot(s)
  /\ clock' = clock + 1
  /\ GwForward(s, route, id, body)
  /\ UNCHANGED <<store, redisUp, nextId, boot, client, life, prev, gone>>

\* the same for the scenario client, which records the responses it gets
ScenarioRequestGw(s, route, id, body) ==
  /\ GwListening
  /\ FreeSlot(s)
  /\ GwForward(s, route, id, body)
  /\ UNCHANGED <<store, redisUp, nextId, clock, boot, life, prev, gone>>

\* a handler that issues its call again when the user service answers 5xx
GwUpstreamReturnRetries(s) ==
  /\ gw[s].pc = "await"
  /\ ds[s].pc = "done"
  /\ IF ds[s].res.status >= 500
     THEN /\ gw' = gw
          /\ ds' = [ds EXCEPT ![s] = DsStart(Upstream(gw[s].route), gw[s].id, gw[s].body)]
     ELSE /\ gw' = [gw EXCEPT ![s] = GwOnSettle(gw[s], Response(ds[s].res.status, ds[s].res.body))]
          /\ ds' = [ds EXCEPT ![s] = IdleH]
  /\ UNCHANGED <<store, redisUp, nextId, clock, boot, client, life, prev, gone>>

\* the user service's response arrives at the gateway
GwUpstreamReturn(s) ==
  /\ gw[s].pc = "await"
  /\ ds[s].pc = "done"
  /\ gw' = [gw EXCEPT ![s] = GwOnSettle(gw[s], Response(ds[s].res.status, ds[s].res.body))]
  /\ ds' = [ds EXCEPT ![s] = IdleH]
  /\ UNCHANGED <<store, redisUp, nextId, clock, boot, client, life, prev, gone>>

\* the network errors that end a call the user service had accepted
LostCodes == {"ECONNRESET", "ETIMEDOUT"}

\* a broken connection that also ends the user service's handler
GwConnectionLostCancels(s, code) ==
  /\ gw[s].pc = "await"
  /\ gw' = [gw EXCEPT ![s] = GwOnSettle(gw[s], NetError(code))]
  /\ ds' = [ds EXCEPT ![s] = IdleH]
  /\ UNCHANGED <<store, redisUp, nextId, clock, boot, client, life, prev, gone>>

\* the connection to the user service breaks while the call is in flight;
\* the user service goes on handling the request it accepted
GwConnectionLost(s, code) ==
  /\ gw[s].pc = "await"
  /\ gw' = [gw EXCEPT ![s] = GwOnSettle(gw[s], NetError(code))]
  /\ UNCHANGED <<store, redisUp, nextId, clock, boot, ds, client, life, prev, gone>>

\* axios aborts a call whose timeout option elapsed
GwTimeout(s) ==
  /\ gw[s].pc = "await"
  /\ AxiosTimeout(gw[s].route) > 0
  /\ gw' = [gw EXCEPT ![s] = GwOnSettle(gw[s], NetError("ECONNABORTED"))]
  /\ UNCHANGED <<store, redisUp, nextId, clock, boot, ds, client, life, prev, gone>>

\* the gateway's response leaves; the connection ends
GwRespond(s) ==
  /\ gw[s].pc = "done"
  /\ gw' = [gw EXCEPT ![s] = IdleG]
  /\ client' = IF client.via = "gw" /\ client.pc # "free"
               THEN [client EXCEPT !.got = Append(@, gw[s].res)]
               ELSE client
  /\ UNCHANGED <<store, redisUp, nextId, clock, boot, ds, life, prev, gone>>

Methods == {"list", "get", "create", "delete"}

DirectRequest ==
  \E s \in Slots, m \in Methods :
    \/ m = "list" /\ ClientRequestDs(s, m, 0, NoBody)
    \/ m \in {"get", "delete"} /\ \E id \in ReqIds : ClientRequestDs(s, m, id, NoBody)
    \/ m = "create" /\ \E b \in Bodies : ClientRequestDs(s, m, 0, b)

Next ==
  \/ RedisFails
  \/ RedisRecovers
  \/ InitConnect
  \/ InitExists
  \/ InitSet
  \/ DirectRequest
  \/ \E s \in Slots : DsGetReturn(s)
  \/ \E s \in Slots : DsSetReturn(s)
  \/ \E s \in Slots : DsRespond(s)

Spec == Init /\ [][Next]_vars

GatewayRequest ==
  \E s \in Slots, r \in Routes :
    \/ r \in {"list", "ready"} /\ ClientRequestGw(s, r, 0, NoBody)
    \/ r \in {"get", "delete"} /\ \E id \in ReqIds : ClientRequestGw(s, r, id, NoBody)
    \/ r = "create" /\ \E b \in Bodies : ClientRequestGw(s, r, 0, b)

NextGw ==
  \/ RedisFails
  \/ RedisRecovers
  \/ InitConnect
  \/ InitExists
  \/ InitSet
  \/ GatewayRequest
  \/ \E s \in Slots : DsGetReturn(s)
  \/ \E s \in Slots : DsSetReturn(s)
  \/ \E s \in Slots : DsRespond(s)
  \/ \E s \in Slots : GwUpstreamReturn(s)
  \/ \E s \in Slots, code \in LostCodes : GwConnectionLost(s, code)
  \/ \E s \in Slots : GwTimeout(s)
  \/ \E s \in Slots : GwRespond(s)

SpecGw == Init /\ [][NextGw]_vars


\* ------------------------------------------------ the sequential client
\* No request is being handled anywhere.
Quiet == \A s \in Slots : ds[s].pc = "idle" /\ gw[s].pc = "idle"

Emails(users) == {users[i].email : i \in 1..Len(users)}
Ids(users) == {users[i].id : i \in 1..Len(users)}

ScenarioRequest(via, method, id, body) ==
  IF via = "gw" THEN ScenarioRequestGw(1, method, id, body)
  ELSE ScenarioRequestDs(1, method, id, body)

\* step 1: create a user with a name and an email no stored user has
ScenarioPost(via, body) ==
  /\ client.pc = "free"
  /\ Quiet
  /\ boot = "serving"
  /\ ~Falsy(body.name) /\ ~Falsy(body.email)
  /\ body.email \notin Emails(ParseUsers(store))
  /\ client' = [pc |-> "post", via |-> via, body |-> body, got |-> <<>>]
  /\ ScenarioRequest(via, "create", 0, body)

\* step 2: get the user by the identifier the create returned
ScenarioGet ==
  /\ client.pc = "post"
  /\ Quiet
  /\ Len(client.got) = 1 /\ client.got[1].status = 201
  /\ client' = [client EXCEPT !.pc = "get1"]
  /\ ScenarioRequest(client.via, "get", client.got[1].body.id, NoBody)

\* step 3: delete it
ScenarioDelete ==
  /\ client.pc = "get1"
  /\ Quiet
  /\ Len(client.got) = 2
  /\ client' = [client EXCEPT !.pc = "del"]
  /\ ScenarioRequest(client.via, "delete", client.got[1].body.id, NoBody)

\* step 4: get it again
ScenarioGetAgain ==
  /\ client.pc = "del"
  /\ Quiet
  /\ Len(client.got) = 3
  /\ client' = [client EXCEPT !.pc = "get2"]
  /\ ScenarioRequest(client.via, "get", client.got[1].body.id, NoBody)

NextSeq ==
  \/ InitConnect
  \/ InitExists
  \/ InitSet
  \/ Quiet /\ DirectRequest
  \/ Quiet /\ GatewayRequest
  \/ \E via \in {"gw", "ds"}, b \in Bodies : ScenarioPost(via, b)
  \/ ScenarioGet
  \/ ScenarioDelete
  \/ ScenarioGetAgain
  \/ \E s \in Slots : DsGetReturn(s)
  \/ \E s \in Slots : DsSetReturn(s)
  \/ \E s \in Slots : DsRespond(s)
  \/ \E s \in Slots : GwUpstreamReturn(s)
  \/ \E s \in Slots : GwRespond(s)

SpecSeq == Init /\ [][NextSeq]_vars


\* The gateway runs every continuation that is ready; the user service and
\* Redis are outside the gateway and may never answer.
FairSpecGw ==
  /\ Init /\ [][NextGw]_vars
  /\ WF_vars(\E s \in Slots : GwUpstreamReturn(s))
  /\ WF_vars(\E s \in Slots : GwTimeout(s))
  /\ WF_vars(\E s \in Slots : GwRespond(s))

\* ------------------------------------------------ startup and restarts
MaxStarts == 2      \* starts of the user service's process in one behaviour

\* The user service's process is replaced by a new one (a crash, a
\* redeploy): the new process runs start() from its beginning against the
\* same Redis, and the requests the old one was handling are gone.
Restart ==
  /\ boot = "serving"
  /\ prev.starts < MaxStarts
  /\ boot' = "connect"
  /\ ds' = [s \in Slots |-> IdleH]
  /\ prev' = [starts |-> prev.starts + 1, store |-> store, clock |-> clock]
  /\ UNCHANGED <<store, redisUp, nextId, clock, gw, client, life, gone>>

\* the health routes of the user service
HealthMethods == {"health", "live", "ready"}

HealthRequest ==
  \E s \in Slots, m \in HealthMethods : ClientRequestDs(s, m, 0, NoBody)

\* The first start finds what an earlier deployment left in Redis: no key,
\* or a collection whose users were all deleted.
InitBoot ==
  /\ store \in {NoKey, JSONstringify(<<>>)}
  /\ redisUp = TRUE
  /\ nextId = 1
  /\ clock = 0
  /\ boot = "connect"
  /\ ds = [s \in Slots |-> IdleH]
  /\ gw = [s \in Slots |-> IdleG]
  /\ client = IdleClient
  /\ life = [p \in Procs |-> IdleProc]
  /\ prev = NoPrev
  /\ gone = {}

NextBoot ==
  \/ RedisFails
  \/ RedisRecovers
  \/ InitConnect
  \/ InitExists
  \/ InitSet
  \/ Restart
  \/ Quiet /\ DirectRequest
  \/ Quiet /\ HealthRequest
  \/ \E s \in Slots : DsGetReturn(s)
  \/ \E s \in Slots : DsSetReturn(s)
  \/ \E s \in Slots : DsPingReturn(s)
  \/ \E s \in Slots : DsRespond(s)

SpecBoot == InitBoot /\ [][NextBoot]_vars

\* ------------------------------------------------------ health probes
\* the health routes of the gateway a prober calls
GwHealthRoutes == {"live", "ready"}

GatewayHealthRequest ==
  \E s \in Slots, r \in GwHealthRoutes : ClientRequestGw(s, r, 0, NoBody)

\* a request whose method and path no route matches, to either service
UnknownRequest ==
  \E s \in Slots :
    \/ ClientRequestDs(s, "unknown", 0, NoBody)
    \/ ClientRequestGw(s, "unknown", 0, NoBody)

NextHealth ==
  \/ RedisFails
  \/ RedisRecovers
  \/ InitConnect
  \/ InitExists
  \/ InitSet
  \/ HealthRequest
  \/ GatewayHealthRequest
  \/ UnknownRequest
  \/ \E s \in Slots : DsPingReturn(s)
  \/ \E s \in Slots : DsRespond(s)
  \/ \E s \in Slots : GwUpstreamReturn(s)
  \/ \E s \in Slots, code \in LostCodes : GwConnectionLost(s, code)
  \/ \E s \in Slots : GwTimeout(s)
  \/ \E s \in Slots : GwRespond(s)

SpecHealth == Init /\ [][NextHealth]_vars

\* The gateway's timers fire and its ready responses leave; whether the
\* user service's answer ever arrives is not assumed.
FairSpecHealth ==
  /\ Init /\ [][NextHealth]_vars
  /\ WF_vars(\E s \in Slots : GwTimeout(s))
  /\ WF_vars(\E s \in Slots : GwRespond(s))

\* ------------------------------------------------------------ shutdown
MaxSignals == 2     \* termination signals one process receives
MaxDrainReqs == 1   \* client requests issued in a behaviour with a shutdown

\* the delay of the force-exit timer, in ms
SHUTDOWN_TIMEOUT_MS == 30000

\* the connections a process is handling (a response not sent yet counts;
\* a connection its client ended does not)
InFlight(p) ==
  Cardinality({s \in Slots : IF p = "ds" THEN ds[s].pc # "idle" /\ ~ds[s].aborted
                                         ELSE gw[s].pc # "idle"})

\* a listener that reports closed while connections are still open
DrainedAtOnce(p) == TRUE

\* server.close(cb): the 'close' event waits for every connection to end
Drained(p) == InFlight(p) = 0

\* a shutdown handler that closes the Redis connection before the listener
OnSignalQuitsAtOnce(l, hasServer, inflight) ==
  [l EXCEPT !.signals = @ + 1,
            !.busy = IF l.signals = 0 THEN inflight ELSE @,
            !.closed = @ \/ hasServer,
            !.quits = IF hasServer THEN Append(@, l.closed) ELSE @,
            !.timer = SHUTDOWN_TIMEOUT_MS]

\* a shutdown handler whose close callback runs before the earlier ones
OnSignalPrepends(l, hasServer, inflight) ==
  [l EXCEPT !.signals = @ + 1,
            !.busy = IF l.signals = 0 THEN inflight ELSE @,
            !.closed = @ \/ hasServer,
            !.waiters = IF hasServer THEN <<l.closed>> \o @ ELSE @,
            !.timer = SHUTDOWN_TIMEOUT_MS]

\* a shutdown handler that arms no force-exit timer
OnSignalNoTimer(l, hasServer, inflight) ==
  [l EXCEPT !.signals = @ + 1,
            !.busy = IF l.signals = 0 THEN inflight ELSE @,
            !.closed = @ \/ hasServer,
            !.waiters = IF hasServer THEN Append(@, l.closed) ELSE @]

\* handleGracefulShutdown(signal) up to its return:
\*   `if (server) server.close(cb)`: the listener's handle is closed and cb
\*   is registered for its 'close' event; on a listener whose handle is
\*   closed already, cb will be handed ERR_SERVER_NOT_RUNNING;
\*   `setTimeout(() => process.exit(1), SHUTDOWN_TIMEOUT_MS)`.
OnSignal(l, hasServer, inflight) ==
  [l EXCEPT !.signals = @ + 1,
            !.busy = IF l.signals = 0 THEN inflight ELSE @,
            !.closed = @ \/ hasServer,
            !.waiters = IF hasServer THEN Append(@, l.closed) ELSE @,
            !.timer = SHUTDOWN_TIMEOUT_MS]

\* process.exit(status)
Exit(l, status, how, inflight) ==
  [l EXCEPT !.exited = TRUE, !.status = status, !.how = how, !.cut = inflight,
            !.timer = 0, !.waiters = <<>>, !.quits = <<>>]

\* an exit status that counts a failed redis.quit() as a failure
DsExitStatusQuitCounts(err, quitErr) == IF err \/ quitErr THEN 1 ELSE 0

\* user service: `process.exit(err ? 1 : 0)` after the try/catch around quit
DsExitStatus(err, quitErr) == IF err THEN 1 ELSE 0

\* gateway: `if (err) process.exit(1)`, else `process.exit(0)`
GwExitStatus(err) == IF err THEN 1 ELSE 0

\* SIGTERM or SIGINT reaches the user service; `server` is undefined until
\* start() has called app.listen
DsSignal ==
  /\ boot # "stopped"
  /\ life["ds"].signals < MaxSignals
  /\ life' = [life EXCEPT !["ds"] =
                OnSignal(@, boot \in {"serving", "draining"}, InFlight("ds"))]
  /\ boot' = IF boot = "serving" THEN "draining" ELSE boot
  /\ UNCHANGED <<store, redisUp, nextId, clock, ds, gw, client, prev, gone>>

\* The closed listener has no connection left and emits 'close': every
\* registered callback runs up to its `await redis.quit()`.
DsCloseEvent ==
  /\ boot = "draining"
  /\ life["ds"].waiters # <<>>
  /\ Drained("ds")
  /\ life' = [life EXCEPT !["ds"].quits = @ \o life["ds"].waiters,
                          !["ds"].waiters = <<>>]
  /\ UNCHANGED <<store, redisUp, nextId, clock, boot, ds, gw, client, prev, gone>>

\* redis.quit() settles (Redis answers its commands in the order they were
\* issued): resolved, or rejected and caught; then process.exit
DsQuitReturn ==
  /\ boot = "draining"
  /\ life["ds"].quits # <<>>
  /\ LET err == Head(life["ds"].quits) IN
       life' = [life EXCEPT !["ds"] =
                 [Exit(@, DsExitStatus(err, ~redisUp),
                       IF err THEN "closeErr" ELSE "close", InFlight("ds"))
                    EXCEPT !.quitFailed = ~redisUp]]
  /\ boot' = "stopped"
  /\ ds' = [s \in Slots |-> IdleH]
  /\ UNCHANGED <<store, redisUp, nextId, clock, gw, client, prev, gone>>

\* the force-exit timer of the user service fires: process.exit(1)
DsForceExit ==
  /\ boot # "stopped"
  /\ life["ds"].timer > 0
  /\ life' = [life EXCEPT !["ds"] = Exit(@, 1, "timer", InFlight("ds"))]
  /\ boot' = "stopped"
  /\ ds' = [s \in Slots |-> IdleH]
  /\ UNCHANGED <<store, redisUp, nextId, clock, gw, client, prev, gone>>

\* SIGTERM or SIGINT reaches the gateway
GwSignal ==
  /\ ~life["gw"].exited
  /\ life["gw"].signals < MaxSignals
  /\ life' = [life EXCEPT !["gw"] = OnSignal(@, TRUE, InFlight("gw"))]
  /\ UNCHANGED <<store, redisUp, nextId, clock, boot, ds, gw, client, prev, gone>>

\* The gateway's closed listener has no connection left and emits 'close':
\* the first registered callback exits the process.
GwCloseEvent ==
  /\ ~life["gw"].exited
  /\ life["gw"].waiters # <<>>
  /\ Drained("gw")
  /\ LET err == Head(life["gw"].waiters) IN
       life' = [life EXCEPT !["gw"] =
                 Exit(@, GwExitStatus(err),
                      IF err THEN "closeErr" ELSE "close", InFlight("gw"))]
  /\ UNCHANGED <<store, redisUp, nextId, clock, boot, ds, gw, client, prev, gone>>

\* the force-exit timer of the gateway fires: process.exit(1)
GwForceExit ==
  /\ ~life["gw"].exited
  /\ life["gw"].timer > 0
  /\ life' = [life EXCEPT !["gw"] = Exit(@, 1, "timer", InFlight("gw"))]
  /\ gw' = [s \in Slots |-> IdleG]
  /\ UNCHANGED <<store, redisUp, nextId, clock, boot, ds, client, prev, gone>>

\* the requests that are in flight when a process is told to stop
DrainMethods == {"list", "delete"}

DrainRequest ==
  /\ clock < MaxDrainReqs
  /\ \E s \in Slots, m \in DrainMethods :
    \/ ClientRequestDs(s, m, 1, NoBody)
    \/ m = "list" /\ ClientRequestGw(s, m, 0, NoBody)

NextLife ==
  \/ RedisFails
  \/ RedisRecovers
  \/ InitConnect
  \/ InitExists
  \/ InitSet
  \/ DrainRequest
  \/ \E s \in Slots : DsGetReturn(s)
  \/ \E s \in Slots : DsSetReturn(s)
  \/ \E s \in Slots : DsRespond(s)
  \/ \E s \in Slots : GwUpstreamReturn(s)
  \/ \E s \in Slots : GwConnectionLost(s, "ECONNRESET")
  \/ \E s \in Slots : GwRespond(s)
  \/ DsSignal
  \/ DsCloseEvent
  \/ DsQuitReturn
  \/ DsForceExit
  \/ GwSignal
  \/ GwCloseEvent
  \/ GwForceExit

SpecLife == Init /\ [][NextLife]_vars

\* Shutdown against a Redis that stays up; its answers may still never come.
NextStop ==
  \/ InitConnect
  \/ InitExists
  \/ InitSet
  \/ DrainRequest
  \/ \E s \in Slots : DsGetReturn(s)
  \/ \E s \in Slots : DsSetReturn(s)
  \/ \E s \in Slots : DsRespond(s)
  \/ \E s \in Slots : GwUpstreamReturn(s)
  \/ \E s \in Slots : GwConnectionLost(s, "ECONNRESET")
  \/ \E s \in Slots : GwRespond(s)
  \/ DsSignal
  \/ DsCloseEvent
  \/ DsQuitReturn
  \/ DsForceExit
  \/ GwSignal
  \/ GwCloseEvent
  \/ GwForceExit

\* A timer that is armed fires; nothing is assumed about requests, Redis
\* or the network.
FairSpecStop ==
  /\ Init /\ [][NextStop]_vars
  /\ WF_vars(DsForceExit)
  /\ WF_vars(GwForceExit)

\* ------------------------------------------- a create the gateway gave up
\* A client creates a user through the gateway and then reads from the user
\* service; Redis stays up, the connection between the services may break.
GatewayCreate ==
  \E s \in Slots, b \in Bodies : ClientRequestGw(s, "create", 0, b)

DirectRead ==
  \E s \in Slots :
    \/ ClientRequestDs(s, "list", 0, NoBody)
    \/ \E id \in ReqIds : ClientRequestDs(s, "get", id, NoBody)

NextAbandon ==
  \/ InitConnect
  \/ InitExists
  \/ InitSet
  \/ GatewayCreate
  \/ DirectRead
  \/ \E s \in Slots : DsGetReturn(s)
  \/ \E s \in Slots : DsSetReturn(s)
  \/ \E s \in Slots : DsRespond(s)
  \/ \E s \in Slots : GwUpstreamReturn(s)
  \/ \E s \in Slots, code \in LostCodes : GwConnectionLost(s, code)
  \/ \E s \in Slots : GwRespond(s)

SpecAbandon == Init /\ [][NextAbandon]_vars

\* --------------------------------------------- requests one after another
\* Clients send /api/users requests to the gateway, each after the one before
\* was answered; Redis comes and goes and connections break.
UsersRoutes == {"list", "get", "create", "delete"}

ApiRequest ==
  \E s \in Slots, r \in UsersRoutes :
    /\ GwListening
    /\ Quiet
    /\ clock < MaxReqs
    /\ FreeSlot(s)
    /\ clock' = clock + 1
    /\ \/ r = "list" /\ GwForward(s, r, 0, NoBody)
       \/ r \in {"get", "delete"} /\ \E id \in ReqIds : GwForward(s, r, id, NoBody)
       \/ r = "create" /\ \E b \in Bodies : GwForward(s, r, 0, b)
    /\ UNCHANGED <<store, redisUp, nextId, boot, client, life, prev, gone>>

NextPass ==
  \/ RedisFails
  \/ RedisRecovers
  \/ InitConnect
  \/ InitExists
  \/ InitSet
  \/ ApiRequest
  \/ \E s \in Slots : DsGetReturn(s)
  \/ \E s \in Slots : DsSetReturn(s)
  \/ \E s \in Slots : DsRespond(s)
  \/ \E s \in Slots : GwUpstreamReturn(s)
  \/ \E s \in Slots, code \in LostCodes : GwConnectionLost(s, code)
  \/ \E s \in Slots : GwRespond(s)

SpecPass == Init /\ [][NextPass]_vars

\* ------------------------------------------------- writes of the collection
\* Clients create and delete users at the user service while Redis comes and
\* goes; the role of a create is absent, a name, or the empty string.
RoleBodies ==
  { [name |-> "Ann", email |-> "ann@x.io", role |-> r] : r \in {Undefined, "admin", ""} }

WriteRequest ==
  \E s \in Slots :
    \/ \E b \in RoleBodies : ClientRequestDs(s, "create", 0, b)
    \/ \E id \in ReqIds : ClientRequestDs(s, "delete", id, NoBody)

NextWrite ==
  \/ RedisFails
  \/ RedisRecovers
  \/ InitConnect
  \/ InitExists
  \/ InitSet
  \/ WriteRequest
  \/ \E s \in Slots : DsGetReturn(s)
  \/ \E s \in Slots : DsSetReturn(s)
  \/ \E s \in Slots : DsRespond(s)

SpecWrite == Init /\ [][NextWrite]_vars

\* ------------------------------------------- clients that hang up early
\* A client ends its connection while its request is handled: the socket
\* closes, the handler goes on to its next await.
ClientAbort(s) ==
  /\ ds[s].pc \in {"get", "set", "ping"}
  /\ gw[s].pc = "idle"
  /\ ~ds[s].aborted
  /\ ds' = [ds EXCEPT ![s].aborted = TRUE]
  /\ UNCHANGED <<store, redisUp, nextId, clock, boot, gw, client, life, prev, gone>>

\* redis.quit() was issued and has not settled
StoreClosing == life["ds"].quits # <<>>

CutRequest ==
  /\ clock < MaxDrainReqs
  /\ \E s \in Slots, m \in DrainMethods : ClientRequestDs(s, m, 1, NoBody)

\* Shutdown of the user service with such clients.  A handler whose
\* redis.get is pending when redis.quit() is issued is followed no further:
\* Redis executes nothing sent after QUIT, and the process exits when the
\* quit settles.
NextCut ==
  \/ RedisFails
  \/ RedisRecovers
  \/ InitConnect
  \/ InitExists
  \/ InitSet
  \/ CutRequest
  \/ \E s \in Slots : ClientAbort(s)
  \/ ~StoreClosing /\ \E s \in Slots : DsGetReturn(s)
  \/ \E s \in Slots : DsSetReturn(s)
  \/ \E s \in Slots : DsRespond(s)
  \/ DsSignal
  \/ DsCloseEvent
  \/ DsQuitReturn
  \/ DsForceExit

SpecCut == Init /\ [][NextCut]_vars

\* ------------------------------------------------- reads after a delete
\* Clients create and delete users concurrently; once a client was answered
\* 204 for an id, clients look that id up.  Redis stays up.
MaxRaceReqs == 3    \* client requests issued in a behaviour with such lookups

RaceBodies == { [name |-> "Ann", email |-> "ann@x.io", role |-> Undefined] }

RaceStart(s, method, id, body) ==
  /\ DsListening
  /\ clock < MaxRaceReqs
  /\ FreeSlot(s)
  /\ clock' = clock + 1
  /\ ds' = [ds EXCEPT ![s] = DsStart(method, id, body)]
  /\ UNCHANGED <<store, redisUp, nextId, boot, gw, client, life, prev, gone>>

RaceRequest ==
  \E s \in Slots :
    \/ \E b \in RaceBodies : RaceStart(s, "create", 0, b)
    \/ \E id \in ReqIds : RaceStart(s, "delete", id, NoBody)
    \/ \E id \in gone : RaceStart(s, "get", id, NoBody)

\* the response leaves; the client of a DELETE answered 204 knows the id gone
RaceRespond(s) ==
  /\ ds[s].pc = "done"
  /\ ds' = [ds EXCEPT ![s] = IdleH]
  /\ gone' = IF ds[s].method = "delete" /\ ds[s].res.status = 204
             THEN gone \cup {ds[s].id} ELSE gone
  /\ UNCHANGED <<store, redisUp, nextId, clock, boot, gw, client, life, prev>>

NextRace ==
  \/ InitConnect
  \/ InitExists
  \/ InitSet
  \/ RaceRequest
  \/ \E s \in Slots : DsGetReturn(s)
  \/ \E s \in Slots : DsSetReturn(s)
  \/ \E s \in Slots : RaceRespond(s)

SpecRace == Init /\ [][NextRace]_vars

\* ------------------------------------------------- every route together
\* Clients call every route of both services while Redis comes and goes:
\* the /users routes concurrently (the creates among them are refused), the
\* health routes and the gateway when nothing else is handled.
\* a user with the email of a sample user and a user without name; a new
\* user as well
RefusedBodies ==
  { [name |-> "Joe", email |-> "john@example.com", role |-> Undefined],
    [name |-> "", email |-> "ann@x.io", role |-> Undefined] }

AllBodies ==
  RefusedBodies \cup { [name |-> "Ann", email |-> "ann@x.io", role |-> Undefined] }

UsersRequest ==
  \E s \in Slots :
    \/ ClientRequestDs(s, "list", 0, NoBody)
    \/ \E m \in {"get", "delete"} : ClientRequestDs(s, m, nextId - 1, NoBody)
    \/ \E b \in RefusedBodies : ClientRequestDs(s, "create", 0, b)

GatewayCall ==
  \E s \in Slots :
    \/ \E r \in {"list", "ready", "live"} : ClientRequestGw(s, r, 0, NoBody)
    \/ \E r \in {"get", "delete"} : ClientRequestGw(s, r, nextId - 1, NoBody)
    \/ \E b \in AllBodies : ClientRequestGw(s, "create", 0, b)

NextAll ==
  \/ RedisFails
  \/ RedisRecovers
  \/ InitConnect
  \/ InitExists
  \/ InitSet
  \/ UsersRequest
  \/ Quiet /\ HealthRequest
  \/ Quiet /\ GatewayCall
  \/ \E s \in Slots : DsGetReturn(s)
  \/ \E s \in Slots : DsSetReturn(s)
  \/ \E s \in Slots : DsPingReturn(s)
  \/ \E s \in Slots : DsRespond(s)
  \/ \E s \in Slots : GwUpstreamReturn(s)
  \/ \E s \in Slots : GwConnectionLost(s, "ECONNRESET")
  \/ \E s \in Slots : GwTimeout(s)
  \/ \E s \in Slots : GwRespond(s)

SpecAll == Init /\ [][NextAll]_vars

\* ================================================================ claims
ApiRoutes == {"list", "get", "create", "delete"}

Settled(s) == gw[s].pc = "done" /\ gw[s].route \in ApiRoutes

\* C1: whenever the user service answers a forwarded /api/users call with
\* 400, 404 or 409, the gateway responds with that same status.
C1_ClientErrorPassthrough ==
  \A s \in Slots :
    (Settled(s) /\ gw[s].up.kind = "response" /\ gw[s].up.status \in {400, 404, 409})
      => gw[s].res.status = gw[s].up.status

\* the 502 body of each forwarding route
Fixed502Body(route) ==
  CASE route = "list" -> [error |-> "Failed to fetch users from user-service"]
    [] route = "get" -> [error |-> "Failed to fetch user from user-service"]
    [] route = "create" -> [error |-> "Failed to create user"]
    [] route = "delete" -> [error |-> "Failed to delete user"]

UpstreamFailed(s) ==
  \/ gw[s].up.kind = "error"
  \/ gw[s].up.kind = "response" /\ gw[s].up.status >= 500

\* C2: when the forwarded call fails (no response, or a 5xx response) the
\* gateway responds 502 with the body fixed for the route, whatever the error.
C2_FailureIs502 ==
  \A s \in Slots :
    (Settled(s) /\ UpstreamFailed(s))
      => gw[s].res = [status |-> 502, body |-> Fixed502Body(gw[s].route)]

C2_Witness ==
  \E s \in Slots :
    /\ Settled(s) /\ gw[s].route = "delete"
    /\ gw[s].up.kind = "error" /\ gw[s].up.code = "ECONNRESET"
    /\ gw[s].res.status = 502

\* C3: every gateway handler waiting for the user service eventually stops
\* waiting, even if the user service never answers.
C3_HandlerEventuallyAnswers ==
  \A s \in Slots : (gw[s].pc = "await") ~> (gw[s].pc # "await")

\* C4: when the user service answers with 200, 201 or 204 the gateway's
\* response carries that status and that body.
C4_SuccessForwarded ==
  \A s \in Slots :
    (Settled(s) /\ gw[s].up.kind = "response" /\ gw[s].up.status \in {200, 201, 204})
      => /\ gw[s].res.status = gw[s].up.status
         /\ gw[s].res.body = gw[s].up.data

C4_Witness ==
  \E s \in Slots :
    /\ Settled(s) /\ gw[s].route = "create"
    /\ gw[s].up.kind = "response" /\ gw[s].up.status = 201
    /\ gw[s].res.status = 201

\* the first response of the scenario is a 201 whose record carries the
\* name and the email posted and an identifier
Created(got, body) ==
  /\ got[1].status = 201
  /\ DOMAIN got[1].body = {"id", "name", "email", "role", "createdAt"}
  /\ got[1].body.name = body.name
  /\ got[1].body.email = body.email

\* C5: through the gateway, with no other writer: POST with a valid name and
\* an unused email returns 201 with an identifier, GET of it returns the same
\* record, DELETE returns 204, GET again returns 404.
C5_EndToEnd ==
  client.via = "gw" =>
    /\ Len(client.got) >= 1 => Created(client.got, client.body)
    /\ Len(client.got) >= 2 =>
         client.got[2] = [status |-> 200, body |-> client.got[1].body]
    /\ Len(client.got) >= 3 => client.got[3].status = 204
    /\ Len(client.got) >= 4 => client.got[4].status = 404

C5_Witness == client.via = "gw" /\ client.pc = "get2" /\ Len(client.got) = 4

\* C6: a successful redis.set replaces the stored collection by the
\* collection the handler derived from its own read, whatever was stored
\* in between; so two handlers can both succeed while one change is missing.
C6_LastWriteWins ==
  [][\A s \in Slots :
       (ds[s].pc = "set" /\ ds'[s].pc = "done" /\ ds'[s].res.status \in {201, 204})
         => store' = [json |-> ds[s].users]]_vars

\* both handlers answered with success and the first one's record is not
\* stored, although nobody deleted it
C6_Witness ==
  \E s, t \in Slots :
    /\ s # t
    /\ ds[s].pc = "done" /\ ds[s].res.status = 201
    /\ ds[t].pc = "done" /\ ds[t].res.status \in {201, 204}
    /\ ds[t].method = "delete" => ds[t].id # ds[s].res.body.id
    /\ ds[s].res.body.id \notin Ids(ParseUsers(store))
    /\ ds[t].method = "create" => ds[t].res.body.id \in Ids(ParseUsers(store))

\* C7: no two records of the stored collection have the same email.
C7_UniqueEmails ==
  LET users == ParseUsers(store) IN
  \A i, j \in 1..Len(users) : users[i].email = users[j].email => i = j

\* two concurrent creates of the same email were both answered 201
C7_Witness ==
  \E s, t \in Slots :
    /\ s # t
    /\ ds[s].pc = "done" /\ ds[s].res.status = 201
    /\ ds[t].pc = "done" /\ ds[t].res.status = 201
    /\ ds[s].body.email = ds[t].body.email

\* C8: create with an unused email returns 201 with the name and email
\* given and an identifier no other stored record has; the get by that
\* identifier that follows returns the same record.
C8_CreateThenGet ==
  client.via = "ds" =>
    /\ Len(client.got) >= 1 => Created(client.got, client.body)
    /\ (client.pc = "post" /\ Len(client.got) = 1) =>
         LET users == ParseUsers(store) IN
         Cardinality({i \in 1..Len(users) : users[i].id = client.got[1].body.id}) = 1
    /\ Len(client.got) >= 2 =>
         client.got[2] = [status |-> 200, body |-> client.got[1].body]

C8_Witness == client.via = "ds" /\ client.pc = "get1" /\ Len(client.got) = 2

\* C9: when redis.get answers a create whose email some stored record has,
\* the handler answers 409 without issuing a write: the store is unchanged.
C9_DuplicateIs409 ==
  [][\A s \in Slots :
       (/\ ds[s].pc = "get" /\ ds[s].method = "create" /\ ds'[s] # ds[s]
        /\ redisUp
        /\ ds[s].body.email \in Emails(ParseUsers(store)))
         => /\ ds'[s].pc = "done"
            /\ ds'[s].res = [status |-> 409, body |-> [error |-> "Email already exists"]]
            /\ store' = store]_vars

\* a 409 for an email held by a record that is not the first of the collection
C9_Witness ==
  \E s \in Slots :
    /\ ds[s].pc = "done" /\ ds[s].method = "create" /\ ds[s].res.status = 409
    /\ LET users == ParseUsers(store) IN
       \E i \in 2..Len(users) : users[i].email = ds[s].body.email

\* C10: when redis.get answers a delete whose identifier no stored record
\* has, the handler answers 404 without issuing a write: the store is
\* unchanged.
C10_DeleteMissingIs404 ==
  [][\A s \in Slots :
       (/\ ds[s].pc = "get" /\ ds[s].method = "delete" /\ ds'[s] # ds[s]
        /\ redisUp
        /\ ds[s].id \notin Ids(ParseUsers(store)))
         => /\ ds'[s].pc = "done"
            /\ ds'[s].res = [status |-> 404, body |-> [error |-> "User not found"]]
            /\ store' = store]_vars

\* a 404 for a delete while the collection holds records
C10_Witness ==
  \E s \in Slots :
    /\ ds[s].pc = "done" /\ ds[s].method = "delete" /\ ds[s].res.status = 404
    /\ Len(ParseUsers(store)) > 0

\* C11: GET /users answers 200 with an empty data array and total 0 when
\* the key is absent or holds an empty collection and Redis answers; in
\* every 200 it sends, total is the number of records in data.
C11_ListNeverFailsOnEmpty ==
  [][\A s \in Slots :
       (ds[s].pc = "get" /\ ds[s].method = "list" /\ ds'[s].pc = "done")
         => /\ ds'[s].res.status = 200
                 => ds'[s].res.body.total = Len(ds'[s].res.body.data)
            /\ (redisUp /\ store \in {NoKey, JSONstringify(<<>>)})
                 => ds'[s].res = [status |-> 200, body |-> [data |-> <<>>, total |-> 0]]]_vars

C11_Witness ==
  \E s \in Slots :
    /\ ds[s].pc = "done" /\ ds[s].method = "list" /\ store = NoKey
    /\ ds[s].res = [status |-> 200, body |-> [data |-> <<>>, total |-> 0]]

Starting == boot \in {"connect", "exists", "set"}

\* C12: a second run of the seeding right after a first one (no request in
\* between) leaves the stored collection as the first run left it: it
\* writes nothing, and the seed users are never stored twice.
C12_SeedingIdempotent ==
  clock = 0 =>
    /\ (prev.starts > 1 /\ prev.store # NoKey) => store = prev.store
    /\ LET users == ParseUsers(store) IN
         /\ Len(users) \in {0, Len(SampleUsers(1, 0))}
         /\ Cardinality(Emails(users)) = Len(users)

C12_Witness ==
  /\ prev.starts = 2 /\ boot = "serving" /\ clock = 0
  /\ prev.store = JSONstringify(SampleUsers(1, 0))
  /\ store = prev.store
  /\ nextId = 4

\* C13: the seeding never changes a key that exists, whatever it holds (an
\* emptied collection, users that clients created); the only thing it
\* writes is the seed set, and only when the key is absent.
C13_SeedingNeverOverwrites ==
  [][Starting =>
       /\ store # NoKey => store' = store
       /\ store' # store =>
            /\ boot = "set"
            /\ store' = JSONstringify(SampleUsers(nextId, clock))]_vars

C13_Witness ==
  /\ prev.starts = 2 /\ boot = "serving" /\ Quiet
  /\ prev.clock = clock
  /\ "ann@x.io" \in Emails(ParseUsers(prev.store))
  /\ store = prev.store

Alive200 == [status |-> 200, body |-> [status |-> "alive"]]

\* C14: the user service handles no request before initializeData has
\* finished; it starts listening when the seeding succeeded and when it
\* failed; after a failed seeding it answers GET /health/live with 200.
C14_SeedThenListen ==
  [][/\ Starting' => \A s \in Slots : ds'[s].pc = "idle"
     /\ (Starting /\ boot' # boot) =>
          /\ boot' \in {"exists", "set", "serving"}
          /\ (~redisUp \/ boot = "set") => boot' = "serving"
     /\ \A s \in Slots : ds'[s].method = "live" => ds'[s].res = Alive200]_vars

C14_Witness ==
  /\ boot = "serving" /\ store = NoKey /\ prev.starts = 1
  /\ \E s \in Slots :
       ds[s].pc = "done" /\ ds[s].method = "live" /\ ds[s].res = Alive200

\* C15: GET /health/live of either service answers 200 alive at once, in
\* every state of Redis and of the user service: the user service's handler
\* issues no Redis command, the gateway's no call to the user service.
C15_LiveIsIndependent ==
  \A s \in Slots :
    /\ ds[s].method = "live" => ds[s].pc = "done" /\ ds[s].res = Alive200
    /\ gw[s].route = "live" =>
         /\ gw[s].pc = "done" /\ gw[s].res = Alive200
         /\ gw[s].up = NoUp /\ ds[s].pc = "idle"

C15_Witness ==
  /\ ~redisUp /\ store = NoKey
  /\ \E s \in Slots : ds[s].method = "live" /\ ds[s].res = Alive200
  /\ \E s \in Slots : gw[s].route = "live" /\ gw[s].res = Alive200

Ready200 == [status |-> 200, body |-> [status |-> "ready", redis |-> "up"]]
NotReady503 == [status |-> 503, body |-> [status |-> "not ready", redis |-> "down"]]

C17_GatewayReadiness ==
  /\ [](\A s \in Slots :
          (gw[s].route = "ready" /\ gw[s].pc = "done") =>
            gw[s].res = IF Resolved(gw[s].up)
                        THEN [status |-> 200,
                              body |-> [status |-> "ready", userService |-> "up"]]
                        ELSE [status |-> 503,
                              body |-> [status |-> "not ready", userService |-> "down"]])
  /\ \A s \in Slots :
       (gw[s].route = "ready" /\ gw[s].pc = "await") ~> (gw[s].pc = "done")

C17_Witness ==
  \E s \in Slots :
    /\ gw[s].route = "ready" /\ gw[s].pc = "done"
    /\ gw[s].up = NetError("ECONNABORTED")
    /\ gw[s].res.status = 503

\* C18 as stated: a process signalled with a request in flight, whose
\* requests were all answered before it exited, exits with status 0.
C18_AnsweredMeansStatus0 ==
  \A p \in Procs :
    (life[p].exited /\ life[p].closed /\ life[p].busy > 0 /\ life[p].cut = 0)
      => life[p].status = 0

\* C18: a serving process signalled with a request in flight, whose
\* shutdown (the drain, the listener's close and the user service's
\* redis.quit) ends before the force-exit timer fires, has sent every
\* response before it exits, and exits with status 0.
C18_GracefulDrain ==
  \A p \in Procs :
    (life[p].exited /\ life[p].busy > 0 /\ life[p].how # "timer")
      => life[p].status = 0 /\ life[p].cut = 0

C18_Witness ==
  /\ \A p \in Procs : life[p].exited /\ life[p].busy > 0 /\ life[p].how = "close"
  /\ clock = 1

\* C19: a process that received a termination signal, while starting or
\* while serving, eventually exits; from the signal on its force-exit timer
\* is armed, and when the timer fires the process exits with status 1,
\* whatever is still in flight or pending.
C19_BoundedShutdown ==
  /\ [](\A p \in Procs :
          /\ (life[p].signals > 0 /\ ~life[p].exited) => life[p].timer = SHUTDOWN_TIMEOUT_MS
          /\ life[p].how = "timer" => life[p].status = 1)
  /\ \A p \in Procs : (life[p].signals > 0) ~> life[p].exited

C19_Witness ==
  /\ life["ds"].how = "timer" /\ life["ds"].status = 1
  /\ ~life["ds"].closed /\ life["ds"].cut > 0

\* C20: a process exits with status 0 exactly when the exit comes from a
\* close callback that was handed no error (so before the timer fired),
\* and with status 1 when the callback was handed an error or the timer
\* fired; a rejected redis.quit() does not change the status.
C20_ExitStatusRule ==
  \A p \in Procs :
    life[p].exited =>
      /\ life[p].status = 0 <=> life[p].how = "close"
      /\ life[p].how \in {"closeErr", "timer"} => life[p].status = 1

C20_Witness ==
  /\ life["ds"].exited /\ life["ds"].quitFailed /\ life["ds"].status = 0
  /\ life["gw"].exited /\ life["gw"].status = 0

\* C21: once a process has received a termination signal, no connection is
\* accepted and no request begins to be handled, also when the signal came
\* while the user service was still starting.
C21_StopsAccepting ==
  [][\A s \in Slots :
       /\ (ds[s].pc = "idle" /\ ds'[s].pc # "idle") => life["ds"].signals = 0
       /\ (gw[s].pc = "idle" /\ gw'[s].pc # "idle") => life["gw"].signals = 0]_vars

\* the lifecycle state of a process
LifeState(p) ==
  IF p = "ds"
  THEN (IF Starting THEN "starting" ELSE boot)
  ELSE (IF life[p].exited THEN "stopped"
        ELSE IF life[p].closed THEN "draining" ELSE "serving")

Rank(state) ==
  CASE state = "starting" -> 1
    [] state = "serving" -> 2
    [] state = "draining" -> 3
    [] state = "stopped" -> 4

\* C22: the lifecycle state of each process only moves forward along
\* starting, serving, draining, stopped, and a process that has received a
\* termination signal is never serving afterwards.
C22_LifecycleForward ==
  [][\A p \in Procs :
       /\ Rank(LifeState(p)') >= Rank(LifeState(p))
       /\ life[p].signals > 0 => LifeState(p)' # "serving"]_vars

\* C23: in the user service redis.quit() is issued only from the callbacks
\* of the listener's 'close' event (listener closed, no connection left),
\* by every such callback whether it was handed an error or not, and the
\* process exits once quit settled, also when it was rejected.
C23_CloseOrdering ==
  [][LET l == life["ds"] IN
     /\ l'.quits # l.quits =>
          \/ /\ l.closed /\ Drained("ds") /\ ~l.exited
             /\ l'.quits = l.quits \o l.waiters
          \/ l'.exited
     /\ Len(l'.quits) < Len(l.quits) => l'.exited
     /\ l'.quitFailed => l'.exited]_vars

C23_Witness ==
  /\ life["ds"].exited /\ life["ds"].quitFailed /\ life["ds"].how = "close"
  /\ life["ds"].signals = 2

Invalid(body) == Falsy(body.name) \/ Falsy(body.email)

\* C25: a POST /users whose name or email is missing or empty is answered
\* 400 before any Redis command is issued: its handler never reads or
\* writes the collection.
C25_InvalidCreateIs400 ==
  \A s \in Slots :
    (ds[s].method = "create" /\ Invalid(ds[s].body)) =>
      /\ ds[s].pc = "done"
      /\ ds[s].res = [status |-> 400, body |-> ErrorBody("Name and email are required")]
      /\ ds[s].user = NoBody /\ ds[s].users = <<>>

C25_Witness ==
  /\ store = JSONstringify(SampleUsers(1, 0))
  /\ \E s \in Slots :
       /\ ds[s].method = "create" /\ ds[s].body.email = Undefined
       /\ ds[s].res.status = 400

\* the error codes a failed axios call carries
ErrCodes == {"ECONNREFUSED", "ECONNABORTED"} \cup LostCodes

\* the body a route of the user service sends with a 5xx
DsFixed5xxBody(method) ==
  IF method = "ready" THEN [status |-> "not ready", redis |-> "down"]
  ELSE DsFailureBody(method)

\* the body a route of the gateway sends with a 5xx
GwFixed5xxBody(route) ==
  IF route = "ready" THEN [status |-> "not ready", userService |-> "down"]
  ELSE Fixed502Body(route)

\* C26: the body of every 5xx response of either service is the constant
\* body of its route, and the response of a gateway handler to a failed
\* call is the same whatever error code and message the failure carries.
C26_NoErrorDetail ==
  \A s \in Slots :
    /\ (ds[s].pc = "done" /\ ds[s].res.status >= 500)
         => ds[s].res.body = DsFixed5xxBody(ds[s].method)
    /\ (gw[s].pc = "done" /\ gw[s].res.status >= 500)
         => gw[s].res.body = GwFixed5xxBody(gw[s].route)
    /\ gw[s].pc = "await" =>
         \A c1, c2 \in ErrCodes :
           GwOnSettle(gw[s], NetError(c1)).res = GwOnSettle(gw[s], NetError(c2)).res

C26_Witness ==
  \E s \in Slots :
    /\ gw[s].pc = "done" /\ gw[s].route = "list"
    /\ gw[s].up = Response(500, DsFailureBody("list"))
    /\ gw[s].res = [status |-> 502, body |-> GwFixed5xxBody("list")]

NotFound404 == [status |-> 404, body |-> ErrorBody("Not found")]

\* C27: a request that matches no route is answered 404 by the 404 handler
\* of the service it reached, at once: no Redis command, no call to the
\* user service, whatever the state of Redis and of the user service.
C27_UnknownRouteIs404 ==
  \A s \in Slots :
    /\ ds[s].method = "unknown" => ds[s].pc = "done" /\ ds[s].res = NotFound404
    /\ gw[s].route = "unknown" =>
         /\ gw[s].pc = "done" /\ gw[s].res = NotFound404
         /\ gw[s].up = NoUp /\ ds[s].pc = "idle"

C27_Witness ==
  /\ ~redisUp /\ store = NoKey
  /\ \E s \in Slots : ds[s].method = "unknown" /\ ds[s].res = NotFound404
  /\ \E s \in Slots : gw[s].route = "unknown" /\ gw[s].res = NotFound404

\* C28: when the call of a POST /api/users fails from the gateway's view,
\* the gateway answers 502 and the user service's handler is left running:
\* it can still store the user, and a later GET returns the user the
\* caller was told could not be created.
C28_AbandonedNotCancelled ==
  [][\A s \in Slots :
       (/\ gw[s].pc = "await" /\ gw[s].route = "create"
        /\ gw'[s].pc = "done" /\ gw'[s].up.kind = "error")
         => /\ gw'[s].res.status = 502
            /\ ds'[s] = ds[s]
            /\ store' = store]_vars

C28_Witness ==
  \E s, t \in Slots :
    /\ gw[s].pc = "done" /\ gw[s].route = "create"
    /\ gw[s].up.kind = "error" /\ gw[s].res.status = 502
    /\ gw[s].body.email \in Emails(ParseUsers(store))
    /\ ds[t].pc = "done" /\ ds[t].method = "get" /\ ds[t].res.status = 200
    /\ ds[t].res.body.email = gw[s].body.email

\* what a handler does to the collection it read, stated on the sequences
Appended(read, written, body, role) ==
  /\ Len(written) = Len(read) + 1
  /\ SubSeq(written, 1, Len(read)) = read
  /\ written[Len(written)].name = body.name
  /\ written[Len(written)].email = body.email
  /\ written[Len(written)].role = role

Removed(read, written, id) ==
  \E k \in 1..Len(read) :
    /\ read[k].id = id
    /\ \A j \in 1..(k - 1) : read[j].id # id
    /\ written = SubSeq(read, 1, k - 1) \o SubSeq(read, k + 1, Len(read))

\* the steps of a successful write: the collection is read and changed in
\* memory, kept while redis.set is pending, and stored whole
WriteShape(s, role) ==
  /\ (ds[s].pc = "get" /\ ds'[s].pc = "set" /\ ds[s].method = "create")
       => Appended(ParseUsers(store), ds'[s].users, ds[s].body, role)
  /\ (ds[s].pc = "get" /\ ds'[s].pc = "set" /\ ds[s].method = "delete")
       => Removed(ParseUsers(store), ds'[s].users, ds[s].id)
  /\ (ds[s].pc = "set" /\ ds'[s].pc = "set") => ds'[s].users = ds[s].users
  /\ (ds[s].pc = "set" /\ ds'[s].pc = "done" /\ ds'[s].res.status \in {201, 204})
       => store' = JSONstringify(ds[s].users)

\* C29 as stated: a successful create writes the collection it read with
\* one record appended whose role is the supplied role, or "user" when the
\* role is omitted; a successful delete writes the collection it read without
\* the first record of the id.  Violated by a create that supplies role "".
C29_RoleAsSupplied ==
  [][\A s \in Slots :
       WriteShape(s, IF ds[s].body.role = Undefined THEN "user"
                     ELSE ds[s].body.role)]_vars

\* C29 amended: the role written is the supplied role when it is truthy and
\* "user" when it is omitted or falsy (the empty string); the rest of the
\* claim as stated.
C29_WriteShape ==
  [][\A s \in Slots :
       WriteShape(s, IF ds[s].body.role \in {Undefined, ""} THEN "user"
                     ELSE ds[s].body.role)]_vars

C29_Witness ==
  \E s, t \in Slots :
    /\ ds[s].pc = "done" /\ ds[s].method = "create" /\ ds[s].res.status = 201
    /\ ds[s].body.role = "" /\ ds[s].res.body.role = "user"
    /\ ds[t].pc = "done" /\ ds[t].method = "delete" /\ ds[t].res.status = 204
    /\ Len(ParseUsers(store)) = 3
    /\ ParseUsers(store)[3] = ds[s].res.body

\* a handler of the user service starts on connection s
DsCalled(s) ==
  /\ ds'[s] # ds[s]
  /\ ds'[s].pc # "idle"
  /\ \/ ds[s].pc \in {"idle", "done"}
     \/ ds[s].pc = "set" /\ ds'[s].pc # "done"

C31_DeletedStays404 ==
  \A s \in Slots :
    (ds[s].pc = "done" /\ ds[s].method = "get" /\ ds[s].id \in gone)
      => ds[s].res.status = 404

\* C31 amended: with the store reachable, a GET for an id whose DELETE was
\* answered 204 returns 404 as long as the stored collection lacks the
\* record, and the record comes back into the stored collection only by
\* the write of a create or delete handler that holds a copy of the
\* collection read while the record was in it; no handler that reads the
\* collection without the record puts it back.
C31_GoneUnlessStaleWrite ==
  [][/\ \A s \in Slots :
          (ds[s].pc = "get" /\ ds[s].method = "get" /\ ds[s].id \in gone
           /\ ds'[s].pc = "done")
            => ds'[s].res.status =
                 IF ds[s].id \in Ids(ParseUsers(store)) THEN 200 ELSE 404
     /\ \A x \in gone :
          x \notin Ids(ParseUsers(store)) =>
            /\ x \in Ids(ParseUsers(store')) =>
                 \E t \in Slots : /\ ds[t].pc = "set" /\ ds'[t].pc = "done"
                                  /\ x \in Ids(ds[t].users)
            /\ \A t \in Slots :
                 (ds[t].pc = "get" /\ ds'[t].pc = "set")
                   => x \notin Ids(ds'[t].users)]_vars

C31_Witness ==
  \E s \in Slots :
    /\ ds[s].pc = "done" /\ ds[s].method = "get" /\ ds[s].id \in gone
    /\ ds[s].res.status = 404
    /\ "ann@x.io" \in Emails(ParseUsers(store))

\* C32: a process that received more than one termination signal and exits
\* from its listener's close callback, not from the force-exit timer, exits
\* with status 0, and the user service exits so only when a redis.quit() it
\* issued has settled.
C32_RepeatedSignalSameOutcome ==
  [][\A p \in Procs :
       (/\ ~life[p].exited /\ life'[p].exited
        /\ life[p].signals >= 2 /\ life'[p].how # "timer")
         => /\ life'[p].status = 0
            /\ life'[p].how = "close"
            /\ p = "ds" => life[p].quits # <<>>]_vars

C32_Witness ==
  \A p \in Procs :
    /\ life[p].exited /\ life[p].signals = 2
    /\ life[p].how = "close" /\ life[p].status = 0

\* C33: the store connection is never closed while a request is still being
\* handled: while a redis.quit() is issued and pending, no handler of the
\* user service is at a store read or write.
C33_StoreOpenWhileHandling ==
  StoreClosing => \A s \in Slots : ds[s].pc \notin {"get", "set", "ping"}

\* C34: the gateway's readiness does not depend on the store: GET /health of
\* the user service answers 200 at once, without a store command, and when
\* that answer reaches the gateway its /health/ready answers 200, with Redis
\* up or down.
C34_GatewayReadyIgnoresStore ==
  \A s \in Slots :
    /\ ds[s].method = "health" =>
         ds[s].pc = "done" /\ ds[s].res.status = 200
    /\ (gw[s].route = "ready" /\ gw[s].pc = "done" /\ gw[s].up.kind = "response")
         => gw[s].up.status = 200 /\ gw[s].res.status = 200

\* with Redis down the gateway reports ready while the user service itself
\* reports not ready
C34_Witness ==
  \E s, u \in Slots :
    /\ ~redisUp
    /\ gw[s].route = "ready" /\ gw[s].pc = "done" /\ gw[s].res.status = 200
    /\ ds[u].method = "ready" /\ ds[u].pc = "done" /\ ds[u].res.status = 503

\* C35: validation comes before the store in create: the step that accepts
\* a POST /users without a name or an email answers it 400, with Redis up
\* or down, and neither that step nor a later one of its handler issues a
\* store command or changes the stored collection.
C35_ValidationBeforeStore ==
  [][\A s \in Slots :
       /\ (ds[s].pc = "idle" /\ ds'[s].method = "create" /\ Invalid(ds'[s].body))
            => /\ ds'[s].pc = "done" /\ ds'[s].res.status = 400
               /\ store' = store /\ nextId' = nextId
       /\ (ds[s].method = "create" /\ Invalid(ds[s].body) /\ ds'[s] # ds[s])
            => ds'[s] = IdleH /\ store' = store /\ nextId' = nextId]_vars

C35_Witness ==
  \E s \in Slots :
    /\ ~redisUp
    /\ ds[s].method = "create" /\ Falsy(ds[s].body.name)
    /\ ds[s].pc = "done" /\ ds[s].res.status = 400

\* the routes of the user service answered to a GET, and the gateway's
ReadOnlyMethods == {"list", "get", "health", "live", "ready"}
GetRoutes == {"list", "get", "live", "ready"}

\* C36: read-only operations leave the store unchanged: a handler of GET
\* /users, GET /users/:id, /health, /health/live or /health/ready never has a
\* redis.set pending, the call a GET route of the gateway makes is one of
\* these, and every step that changes the stored collection is the seeding
\* or the redis.set of a POST or DELETE handler.
C36_ReadsLeaveStore ==
  [][/\ \A s \in Slots :
          /\ ds[s].method \in ReadOnlyMethods => ds[s].pc # "set"
          /\ (gw[s].route \in GetRoutes /\ gw[s].pc = "await")
               => ds[s].method \in ReadOnlyMethods
     /\ store' # store =>
          \/ boot = "set" /\ boot' = "serving"
          \/ \E s \in Slots : /\ ds[s].method \in {"create", "delete"}
                               /\ ds[s].pc = "set" /\ ds'[s].pc = "done"]_vars

\* a listing answered while another handler's write has changed the store
C36_Witness ==
  \E s, u \in Slots :
    /\ ds[s].method = "list" /\ ds[s].pc = "done" /\ ds[s].res.status = 200
    /\ ds[u].method = "delete" /\ ds[u].pc = "done" /\ ds[u].res.status = 204
    /\ ds[s].res.body.total > Len(ParseUsers(store))

\* the response a handler sent: a status and a body, or none yet
Sent(h) == h.res # NoRes

\* C37: exactly one response per request: a handler of either service sends
\* its response in the step that ends its work, does not touch it again, and
\* its connection ends only after that response was sent, on every path
\* (success, 400, 404, 409, store or upstream failure).
C37_OneResponse ==
  [][\A s \in Slots :
       /\ ds[s].pc # "done" => ~Sent(ds[s])
       /\ gw[s].pc # "done" => ~Sent(gw[s])
       /\ (ds[s].pc = "done" /\ ds'[s] # ds[s]) => Sent(ds[s]) /\ ds'[s] = IdleH
       /\ (gw[s].pc = "done" /\ gw'[s] # gw[s]) => Sent(gw[s]) /\ gw'[s] = IdleG
       /\ (ds[s].pc # "idle" /\ ds'[s].pc = "idle") => ds[s].pc = "done"
       /\ (gw[s].pc # "idle" /\ gw'[s].pc = "idle") => gw[s].pc = "done"]_vars

\* a duplicate email answered 409 next to a create without name answered 400
C37_Witness ==
  \E s, u \in Slots :
    /\ ds[s].pc = "done" /\ ds[s].res.status = 409
    /\ ds[u].pc = "done" /\ ds[u].res.status = 400

====
